---- MODULE Spec2Model ----
(***************************************************************************)
(* Model of nix's serialisation layer, src/libutil/serialise.hh: the       *)
(* buffered sink and source, the file-descriptor and string transports and *)
(* the primitive wire codec.  The header holds the class layouts, the      *)
(* constructors, ~FdSink, StringSink and StringSource; the out-of-line     *)
(* members (BufferedSink::operator(), flush, BufferedSource::operator(),   *)
(* FdSink::write, FdSource::read, the write*/read* functions) are declared *)
(* there and modelled from their documented behaviour.                     *)
(*                                                                         *)
(* Bytes of application data are modelled by their 1-based position in the *)
(* stream they belong to, so that a lost, repeated or reordered byte shows *)
(* in the contents.  0 is the value of memory nobody has written.          *)
(***************************************************************************)
EXTENDS Integers, Sequences, FiniteSets, TLC

VARIABLES
    sink,       \* BufferedSink/FdSink object: [bufSize, bufPos, buffer]
    fd,         \* the sink's transport: [wire, room, failed]
    sinkLife,   \* "live" | "destroyed"
    lastOp,     \* the last call on the sink: [op, result, pending]
    hist,       \* history of the sink: [accepted, raised, maxChunk]
    source,     \* BufferedSource/FdSource object: [bufSize, bufPosIn, bufPosOut, buffer]
    stream,     \* the source's transport: [len, pos], byte i of it being i
    call,       \* the fill call in progress: [pc, len, out]
    rhist,      \* history of the source: [delivered, requested, raised, reads, last]
    strsrc,     \* StringSource object: [s, pos]
    sfill,      \* the last fill on the StringSource: [called, pos0, len, result, data]
    msg,        \* the value given to the codec: [kind, v]
    ssink,      \* StringSink object: [s]
    got,        \* the codec's progress: [stage, ok, value]
    wr,         \* an FdSink write call and its descriptor:
                \* [pc, data, off, wire, before, intr, parts, osError, next]
    fr          \* a message of several values: [phase, written, read]

sinkVars == <<sink, fd, sinkLife, lastOp, hist>>

sourceVars == <<source, stream, call, rhist>>

stringVars == <<strsrc, sfill>>

codecVars == <<msg, ssink, got>>

writeVars == <<wr>>

frameVars == <<fr>>

vars == <<sink, fd, sinkLife, lastOp, hist, source, stream, call, rhist,
          strsrc, sfill, msg, ssink, got, wr, fr>>

(***************************************************************************)
(* Bounds of the model.                                                    *)
(***************************************************************************)
MaxBufSize == 3     \* capacities 1..MaxBufSize
MaxChunk == 4       \* chunk sizes 0..MaxChunk, so chunks larger than any capacity
MaxTotal == 6       \* bytes accepted in one run
MaxSrcBuf == 3      \* BufferedSource capacities 1..MaxSrcBuf
MaxStream == 4      \* bytes the source's transport delivers before end-of-stream
MaxFill == 3        \* fill lengths 0..MaxFill
ByteBits == 2       \* bits in a byte of the model; the widths below follow from it
MaxAllLen == 2      \* every byte string up to this length is a codec input
MaxPatLen == 9      \* patterned byte strings up to this length are codec inputs
MaxPadLen == 17     \* writePadding/readPadding are given the lengths 0..MaxPadLen
MaxInserts == 3     \* insertions that build a StringSet
MaxStringLen == 3   \* lengths of the buffer under a StringSource on its own
MaxWriteLen == 3    \* FdSink::write is given 0..MaxWriteLen bytes
MaxWriteTotal == 5  \* bytes given to FdSink::write in one run
MaxIntr == 2        \* interrupted attempts within one write call
MaxFrames == 3      \* values written to one sink as one message

Min(a, b) == IF a < b THEN a ELSE b

\* Each operation touches one object only.
SinkOnly == UNCHANGED <<sourceVars, stringVars, codecVars, writeVars, frameVars>>
SourceOnly == UNCHANGED <<sinkVars, stringVars, codecVars, writeVars, frameVars>>
StringOnly == UNCHANGED <<sinkVars, sourceVars, codecVars, writeVars, frameVars>>
CodecOnly == UNCHANGED <<sinkVars, sourceVars, sfill, writeVars, frameVars>>
WriteOnly == UNCHANGED <<sinkVars, sourceVars, stringVars, codecVars, frameVars>>
FramingOnly == UNCHANGED <<sinkVars, sourceVars, sfill, msg, got, writeVars>>

\* The bytes first..first+len-1 of a stream whose i-th byte is i.
Bytes(first, len) == [i \in 1..len |-> first + i - 1]

(***************************************************************************)
(* The transport under an FdSink.  `wire` is what the OS has taken so far; *)
(* `room` is how many more bytes it takes before a write fails (a closed   *)
(* peer, a full disk); `failed` is whether a write has failed since the    *)
(* current call on the sink began.                                         *)
(***************************************************************************)

\* FdSink::write(data, len): all of data reaches the wire, or the bytes the
\* OS still took do and the call raises.
FdSink_write(tr, data) ==
    IF Len(data) <= tr.room
    THEN [fd |-> [tr EXCEPT !.wire = @ \o data, !.room = @ - Len(data)],
          ok |-> TRUE]
    ELSE [fd |-> [wire |-> tr.wire \o SubSeq(data, 1, tr.room), room |-> 0,
                  failed |-> TRUE],
          ok |-> FALSE]

\* The transport as a call on the sink begins.
AtCall(tr) == [tr EXCEPT !.failed = FALSE]

(***************************************************************************)
(* BufferedSink                                                            *)
(***************************************************************************)

\* A plausible slip in the constructor: the cursor starts at the capacity.
BufferedSink_ctor_CursorAtEnd(size) ==
    [bufSize |-> size, bufPos |-> size, buffer |-> <<>>]

\* BufferedSink(size_t bufSize): bufSize(bufSize), bufPos(0), buffer(0).
BufferedSink_ctor(size) ==
    [bufSize |-> size, bufPos |-> 0, buffer |-> <<>>]

\* buffer + i for 1 <= i <= bufPos; memory past an unallocated or short
\* buffer reads as unwritten.
BufferedBytes(bs) ==
    [i \in 1..bs.bufPos |-> IF i <= Len(bs.buffer) THEN bs.buffer[i] ELSE 0]

\* if (!buffer) buffer = new unsigned char[bufSize];
Allocate(bs) ==
    IF bs.buffer = <<>>
    THEN [bs EXCEPT !.buffer = [i \in 1..bs.bufSize |-> 0]]
    ELSE bs

\* A flush that empties the buffer and returns whatever write did.
BufferedSink_flush_IgnoresError(bs, tr) ==
    IF bs.bufPos = 0
    THEN [sink |-> bs, fd |-> tr, ok |-> TRUE]
    ELSE [sink |-> [bs EXCEPT !.bufPos = 0],
          fd |-> FdSink_write(tr, BufferedBytes(bs)).fd, ok |-> TRUE]

\* BufferedSink::flush(): pass [0, bufPos) to write and empty the buffer.  When
\* write raises, flush raises with the cursor where it was.
BufferedSink_flush(bs, tr) ==
    IF bs.bufPos = 0
    THEN [sink |-> bs, fd |-> tr, ok |-> TRUE]
    ELSE LET w == FdSink_write(tr, BufferedBytes(bs))
         IN  IF w.ok
             THEN [sink |-> [bs EXCEPT !.bufPos = 0], fd |-> w.fd, ok |-> TRUE]
             ELSE [sink |-> bs, fd |-> w.fd, ok |-> FALSE]

\* memcpy(buffer + bufPos, data, n); bufPos += n
CopyIn(bs, data, n) ==
    [bs EXCEPT !.buffer = [i \in 1..Len(@) |->
                              IF bs.bufPos < i /\ i <= bs.bufPos + n
                              THEN data[i - bs.bufPos] ELSE @[i]],
               !.bufPos = @ + n]

\* BufferedSink::operator()(data, len): copy what fits, flush when the buffer
\* is full, go on with the rest.
RECURSIVE BufferedSink_accept(_, _, _)
BufferedSink_accept(bs0, tr, data) ==
    LET bs == Allocate(bs0)
    IN  IF Len(data) = 0
        THEN [sink |-> bs, fd |-> tr, ok |-> TRUE]
        ELSE LET n    == Min(Len(data), bs.bufSize - bs.bufPos)
                 bs1  == CopyIn(bs, data, n)
                 rest == SubSeq(data, n + 1, Len(data))
             IN  IF bs1.bufPos = bs1.bufSize
                 THEN LET f == BufferedSink_flush(bs1, tr)
                      IN  IF f.ok
                          THEN BufferedSink_accept(f.sink, f.fd, rest)
                          ELSE f
                 ELSE BufferedSink_accept(bs1, tr, rest)

\* A destructor that forgets the final flush.
FdSink_dtor_NoFlush(bs, tr) ==
    [sink |-> bs, fd |-> tr, ok |-> TRUE]

\* ~FdSink() { flush(); }
FdSink_dtor(bs, tr) ==
    BufferedSink_flush(bs, tr)

\* How an exception that leaves ~FdSink ends: it propagates to the code that
\* destroyed the object, or (a destructor that is noexcept, or one run while
\* another exception unwinds) std::terminate ends the process.
DtorEscapes == {"propagated", "terminated"}

(***************************************************************************)
(* The sink's operations                                                   *)
(***************************************************************************)
\* The sink as it stands in the runs that exercise another component.
SinkParked ==
    /\ sink = [bufSize |-> 1, bufPos |-> 0, buffer |-> <<>>]
    /\ fd = [wire |-> <<>>, room |-> 0, failed |-> FALSE]
    /\ sinkLife = "live"
    /\ lastOp = [op |-> "none", result |-> "ok", pending |-> 0]
    /\ hist = [accepted |-> <<>>, raised |-> FALSE, maxChunk |-> 0]

\* The source as it stands in the runs that exercise another component.
SourceParked ==
    /\ source = [bufSize |-> 1, bufPosIn |-> 0, bufPosOut |-> 0, buffer |-> <<>>]
    /\ stream = [len |-> 0, pos |-> 0]
    /\ call = [pc |-> "idle", len |-> 0, out |-> <<>>]
    /\ rhist = [delivered |-> <<>>, requested |-> 0, raised |-> FALSE,
                reads |-> 0,
                last |-> [len |-> 0, out |-> <<>>, result |-> "none",
                          eof |-> FALSE]]

\* The StringSource and the codec as they stand in the runs that exercise
\* another component.
StringParked ==
    /\ strsrc = [s |-> <<>>, pos |-> 0]
    /\ sfill = [called |-> FALSE, pos0 |-> 0, len |-> 0, result |-> "ok",
                data |-> <<>>]

CodecParked ==
    /\ msg = [kind |-> "none", v |-> 0]
    /\ ssink = [s |-> <<>>]
    /\ got = [stage |-> "start", ok |-> TRUE, value |-> 0]

\* No write call made yet on a descriptor that has received nothing.
WriteParked ==
    wr = [pc |-> "idle", data |-> <<>>, off |-> 0, wire |-> <<>>,
          before |-> <<>>, intr |-> 0, parts |-> 0, osError |-> FALSE,
          next |-> 1]

\* No message under way.
FramingParked ==
    fr = [phase |-> "writing", written |-> <<>>, read |-> <<>>]

SinkInit ==
    /\ SourceParked /\ StringParked /\ CodecParked /\ WriteParked /\ FramingParked
    /\ \E size \in 1..MaxBufSize : sink = BufferedSink_ctor(size)
    /\ \E room \in 0..(MaxTotal + 1) :
          fd = [wire |-> <<>>, room |-> room, failed |-> FALSE]
    /\ sinkLife = "live"
    /\ lastOp = [op |-> "none", result |-> "ok", pending |-> 0]
    /\ hist = [accepted |-> <<>>, raised |-> FALSE, maxChunk |-> 0]

Result(ok) == IF ok THEN "ok" ELSE "error"

\* sink(data, len) on a live sink.
Accept(len) ==
    /\ sinkLife = "live"
    /\ Len(hist.accepted) + len <= MaxTotal
    /\ LET data == Bytes(Len(hist.accepted) + 1, len)
           r    == BufferedSink_accept(sink, AtCall(fd), data)
       IN  /\ sink' = r.sink
           /\ fd' = r.fd
           /\ lastOp' = [op |-> "accept", result |-> Result(r.ok),
                         pending |-> sink.bufPos]
           /\ hist' = [accepted |-> hist.accepted \o data,
                       raised   |-> hist.raised \/ ~r.ok,
                       maxChunk |-> IF len > hist.maxChunk THEN len
                                    ELSE hist.maxChunk]
    /\ UNCHANGED sinkLife
    /\ SinkOnly

\* sink.flush() on a live sink.
Flush ==
    /\ sinkLife = "live"
    /\ LET r == BufferedSink_flush(sink, AtCall(fd))
       IN  /\ sink' = r.sink
           /\ fd' = r.fd
           /\ lastOp' = [op |-> "flush", result |-> Result(r.ok),
                         pending |-> sink.bufPos]
           /\ hist' = [hist EXCEPT !.raised = @ \/ ~r.ok]
    /\ UNCHANGED sinkLife
    /\ SinkOnly

\* The FdSink goes out of scope: ~FdSink, then ~BufferedSink releases the
\* buffer.  Nothing in ~FdSink catches what flush raises.
Destroy ==
    /\ sinkLife = "live"
    /\ LET r == FdSink_dtor(sink, AtCall(fd))
       IN  /\ sink' = [r.sink EXCEPT !.buffer = <<>>]
           /\ fd' = r.fd
           /\ \E how \in DtorEscapes :
                 lastOp' = [op |-> "destroy",
                            result |-> IF r.ok THEN "ok" ELSE how,
                            pending |-> sink.bufPos]
           /\ hist' = [hist EXCEPT !.raised = @ \/ ~r.ok]
    /\ sinkLife' = "destroyed"
    /\ SinkOnly

SinkNext ==
    \/ \E len \in 0..MaxChunk : Accept(len)
    \/ Flush
    \/ Destroy

(***************************************************************************)
(* FdSink::write, attempt by attempt.  The descriptor's write primitive    *)
(* takes the bytes not yet accepted and either accepts 1..remaining of     *)
(* them, reports that it was interrupted, or fails.                        *)
(***************************************************************************)

\* write(data, len) is entered: nothing of data has been accepted yet.
FdSink_write_enter(w, len) ==
    [w EXCEPT !.pc = "loop", !.data = Bytes(w.next, len), !.off = 0,
              !.before = w.wire, !.intr = 0, !.parts = 0,
              !.next = w.next + len]

\* The primitive accepted the next k bytes: the loop moves on by k.
FdSink_write_accepted(w, k) ==
    [w EXCEPT !.wire = @ \o SubSeq(w.data, w.off + 1, w.off + k),
              !.off = @ + k, !.parts = @ + 1]

\* A plausible slip: an interrupted attempt is counted as one byte written.
FdSink_write_interrupted_SkipsByte(w) ==
    [w EXCEPT !.intr = @ + 1, !.off = @ + 1]

\* The primitive was interrupted: the same bytes are offered again.
FdSink_write_interrupted(w) ==
    [w EXCEPT !.intr = @ + 1]

\* The primitive failed for another reason: write raises.
FdSink_write_failed(w) ==
    [w EXCEPT !.pc = "raised", !.osError = TRUE]

\* The loop's test: write returns once all len bytes are accepted.
FdSink_write_done(w) == w.off >= Len(w.data)

FdWriteInit ==
    /\ SinkParked /\ SourceParked /\ StringParked /\ CodecParked
    /\ WriteParked /\ FramingParked

WriteCall(len) ==
    /\ wr.pc \in {"idle", "returned"}
    /\ wr.next - 1 + len <= MaxWriteTotal
    /\ wr' = FdSink_write_enter(wr, len)
    /\ WriteOnly

WriteAccepted(k) ==
    /\ wr.pc = "loop"
    /\ ~FdSink_write_done(wr)
    /\ k \in 1..(Len(wr.data) - wr.off)
    /\ wr' = FdSink_write_accepted(wr, k)
    /\ WriteOnly

WriteInterrupted ==
    /\ wr.pc = "loop"
    /\ ~FdSink_write_done(wr)
    /\ wr.intr < MaxIntr
    /\ wr' = FdSink_write_interrupted(wr)
    /\ WriteOnly

WriteFailed ==
    /\ wr.pc = "loop"
    /\ ~FdSink_write_done(wr)
    /\ wr' = FdSink_write_failed(wr)
    /\ WriteOnly

WriteReturn ==
    /\ wr.pc = "loop"
    /\ FdSink_write_done(wr)
    /\ wr' = [wr EXCEPT !.pc = "returned"]
    /\ WriteOnly

FdWriteNext ==
    \/ \E len \in 0..MaxWriteLen : WriteCall(len)
    \/ \E k \in 1..MaxWriteLen : WriteAccepted(k)
    \/ WriteInterrupted
    \/ WriteFailed
    \/ WriteReturn

(***************************************************************************)
(* BufferedSource                                                          *)
(***************************************************************************)

\* A plausible slip in the constructor: the input cursor starts at the capacity.
BufferedSource_ctor_CursorAtEnd(size) ==
    [bufSize |-> size, bufPosIn |-> size, bufPosOut |-> 0, buffer |-> <<>>]

\* A plausible slip in the constructor: the output cursor starts at the
\* capacity.
BufferedSource_ctor_OutAtEnd(size) ==
    [bufSize |-> size, bufPosIn |-> 0, bufPosOut |-> size, buffer |-> <<>>]

\* BufferedSource(size_t bufSize): bufSize(bufSize), bufPosIn(0), bufPosOut(0),
\* buffer(0).
BufferedSource_ctor(size) ==
    [bufSize |-> size, bufPosIn |-> 0, bufPosOut |-> 0, buffer |-> <<>>]

\* Bytes the transport has not delivered yet.
Available(st) == st.len - st.pos

\* FdSource::read(data, len): the byte counts the OS may return now.  With
\* bytes left it returns between 1 and len of them; at end-of-stream the OS
\* returns 0 and read raises.
FdSource_read(st, len) ==
    IF Available(st) = 0
    THEN {0}
    ELSE 1..Min(len, Available(st))

\* The buffer after a read of n bytes into its start.
Refilled(src, st, n) ==
    [src EXCEPT !.buffer = [i \in 1..src.bufSize |->
                               IF i <= n THEN st.pos + i
                               ELSE IF i <= Len(@) THEN @[i] ELSE 0],
                !.bufPosIn = n,
                !.bufPosOut = 0]

\* buffer + bufPosOut + i for 1 <= i <= n.
UnreadBytes(src, n) ==
    [i \in 1..n |-> IF src.bufPosOut + i <= Len(src.buffer)
                    THEN src.buffer[src.bufPosOut + i] ELSE 0]

\* A fill that takes end-of-stream for completion and returns what it has.
Fill_onEof_ReturnsShort(c, h) ==
    [h EXCEPT !.delivered = @ \o c.out,
              !.requested = @ + c.len,
              !.last = [len |-> c.len, out |-> c.out, result |-> "ok",
                        eof |-> TRUE]]

\* BufferedSource::operator(): read raised while bytes were still needed; the
\* exception leaves the call.
Fill_onEof(c, h) ==
    [h EXCEPT !.raised = TRUE,
              !.last = [len |-> c.len, out |-> c.out, result |-> "error",
                        eof |-> TRUE]]

SourceInit ==
    /\ SinkParked /\ StringParked /\ CodecParked /\ WriteParked /\ FramingParked
    /\ \E size \in 1..MaxSrcBuf : source = BufferedSource_ctor(size)
    /\ \E n \in 0..MaxStream : stream = [len |-> n, pos |-> 0]
    /\ call = [pc |-> "idle", len |-> 0, out |-> <<>>]
    /\ rhist = [delivered |-> <<>>, requested |-> 0, raised |-> FALSE,
                reads |-> 0,
                last |-> [len |-> 0, out |-> <<>>, result |-> "none",
                          eof |-> FALSE]]

Need == call.len - Len(call.out)

\* source(data, len) is called.
FillCall(len) ==
    /\ call.pc = "idle"
    /\ rhist.requested + len <= MaxStream + 1
    /\ call' = [pc |-> "loop", len |-> len, out |-> <<>>]
    /\ UNCHANGED <<source, stream, rhist>>
    /\ SourceOnly

\* The unread region is empty and bytes are needed: read(buffer, bufSize)
\* returns n >= 1 bytes.
FillRefill ==
    /\ call.pc = "loop" /\ Need > 0
    /\ source.bufPosOut = source.bufPosIn
    /\ \E n \in FdSource_read(stream, source.bufSize) :
          /\ n > 0
          /\ source' = Refilled(source, stream, n)
          /\ stream' = [stream EXCEPT !.pos = @ + n]
    /\ rhist' = [rhist EXCEPT !.reads = @ + 1]
    /\ UNCHANGED call
    /\ SourceOnly

\* The unread region is empty, bytes are needed and the transport is at
\* end-of-stream: read raises and so does the fill.
FillEof ==
    /\ call.pc = "loop" /\ Need > 0
    /\ source.bufPosOut = source.bufPosIn
    /\ 0 \in FdSource_read(stream, source.bufSize)
    /\ rhist' = Fill_onEof(call, rhist)
    /\ call' = [call EXCEPT !.pc = "idle"]
    /\ UNCHANGED <<source, stream>>
    /\ SourceOnly

\* Serve from the unread region [bufPosOut, bufPosIn).
FillCopy ==
    /\ call.pc = "loop" /\ Need > 0
    /\ source.bufPosOut < source.bufPosIn
    /\ LET n == Min(Need, source.bufPosIn - source.bufPosOut)
       IN  /\ call' = [call EXCEPT !.out = @ \o UnreadBytes(source, n)]
           /\ source' = [source EXCEPT !.bufPosOut = @ + n]
    /\ UNCHANGED <<stream, rhist>>
    /\ SourceOnly

\* len bytes are in the caller's buffer: the call returns.
FillReturn ==
    /\ call.pc = "loop" /\ Need = 0
    /\ call' = [call EXCEPT !.pc = "idle"]
    /\ rhist' = [rhist EXCEPT !.delivered = @ \o call.out,
                              !.requested = @ + call.len,
                              !.last = [len |-> call.len, out |-> call.out,
                                        result |-> "ok", eof |-> FALSE]]
    /\ UNCHANGED <<source, stream>>
    /\ SourceOnly

SourceNext ==
    \/ \E len \in 0..MaxFill : FillCall(len)
    \/ FillRefill
    \/ FillEof
    \/ FillCopy
    \/ FillReturn

(***************************************************************************)
(* Integer widths.  A byte has ByteBits bits; unsigned int is 4 bytes,     *)
(* unsigned long long 8 bytes, and size_t is as wide as unsigned int.      *)
(***************************************************************************)
Radix == 2 ^ ByteBits
ByteVal == 0..(Radix - 1)
IntMod == Radix ^ 4
LongMod == Radix ^ 8
SizeMod == IntMod

(***************************************************************************)
(* StringSink and StringSource                                             *)
(***************************************************************************)

\* An append that leaves out the last byte.
StringSink_accept_DropsLast(sk, data) ==
    [sk EXCEPT !.s = @ \o SubSeq(data, 1, Len(data) - 1)]

\* An assignment where the append should be.
StringSink_accept_Assigns(sk, data) ==
    [sk EXCEPT !.s = data]

\* StringSink::operator()(data, len): s.append(data, len).
StringSink_accept(sk, data) ==
    [sk EXCEPT !.s = @ \o data]

\* StringSource(const string & _s): s(_s), pos(0).
StringSource_ctor(s) ==
    [s |-> s, pos |-> 0]

\* A fill that copies but does not move the cursor.
StringSource_fill_NoAdvance(ss, len) ==
    IF ss.pos > Len(ss.s)
    THEN [src |-> ss, data |-> <<>>, result |-> "out_of_range"]
    ELSE LET rlen == Min(len, Len(ss.s) - ss.pos)
         IN  [src |-> ss,
              data |-> SubSeq(ss.s, ss.pos + 1, ss.pos + rlen),
              result |-> IF ss.pos > Len(ss.s) THEN "Error" ELSE "ok"]

\* A fill that raises the decoder's error kind at the end of the string.
StringSource_fill_ThrowsSerialisationError(ss, len) ==
    IF ss.pos > Len(ss.s)
    THEN [src |-> ss, data |-> <<>>, result |-> "out_of_range"]
    ELSE LET rlen == Min(len, Len(ss.s) - ss.pos)
             pos1 == (ss.pos + len) % SizeMod
         IN  [src |-> [ss EXCEPT !.pos = pos1],
              data |-> SubSeq(ss.s, ss.pos + 1, ss.pos + rlen),
              result |-> IF pos1 > Len(ss.s) THEN "SerialisationError"
                         ELSE "ok"]

\* A fill that copies with memcpy, which does not check pos against s.size().
StringSource_fill_NoRangeCheck(ss, len) ==
    LET rlen == IF ss.pos > Len(ss.s) THEN 0
                ELSE Min(len, Len(ss.s) - ss.pos)
        pos1 == (ss.pos + len) % SizeMod
    IN  [src |-> [ss EXCEPT !.pos = pos1],
         data |-> SubSeq(ss.s, ss.pos + 1, ss.pos + rlen),
         result |-> IF pos1 > Len(ss.s) THEN "Error" ELSE "ok"]

\* StringSource::operator()(data, len):
\*     s.copy(data, len, pos);   raises std::out_of_range when pos > s.size(),
\*                               else copies min(len, s.size() - pos) bytes
\*     pos += len;               in size_t arithmetic
\*     if (pos > s.size()) throw Error("end of string reached");
StringSource_fill(ss, len) ==
    IF ss.pos > Len(ss.s)
    THEN [src |-> ss, data |-> <<>>, result |-> "out_of_range"]
    ELSE LET rlen == Min(len, Len(ss.s) - ss.pos)
             pos1 == (ss.pos + len) % SizeMod
         IN  [src |-> [ss EXCEPT !.pos = pos1],
              data |-> SubSeq(ss.s, ss.pos + 1, ss.pos + rlen),
              result |-> IF pos1 > Len(ss.s) THEN "Error" ELSE "ok"]

StringInit ==
    /\ SinkParked /\ SourceParked /\ CodecParked /\ WriteParked /\ FramingParked
    /\ \E L \in 0..MaxStringLen : strsrc = StringSource_ctor(Bytes(1, L))
    /\ sfill = [called |-> FALSE, pos0 |-> 0, len |-> 0, result |-> "ok",
                data |-> <<>>]

\* The lengths asked of a StringSource: those around the buffer's length, the
\* middle of size_t's range and its top, from where pos + len wraps.
FillLens ==
    0..(MaxStringLen + 1)
    \cup {SizeMod \div 2}
    \cup (SizeMod - MaxStringLen - 1)..(SizeMod - 1)

\* source(data, len) on the StringSource.
StringFill(len) ==
    /\ LET r == StringSource_fill(strsrc, len)
       IN  /\ strsrc' = r.src
           /\ sfill' = [called |-> TRUE, pos0 |-> strsrc.pos, len |-> len,
                        result |-> r.result, data |-> r.data]
    /\ StringOnly

StringNext ==
    \E len \in FillLens : StringFill(len)

(***************************************************************************)
(* The primitive codec, over a Sink and a Source.  The functions thread the *)
(* sink, and the readers the source with the outcome: [src, ok, value].    *)
(***************************************************************************)

\* Bytes of a slot on the wire, and of the value part of an unsigned int.
SlotBytes == 8
IntBytes == 4

\* The k low bytes of n, least significant first.
LittleEndian(n, k) == [i \in 1..k |-> (n \div (Radix ^ (i - 1))) % Radix]

\* The number whose little-endian bytes are `bytes`.
RECURSIVE FromLittleEndian(_)
FromLittleEndian(bytes) ==
    IF bytes = <<>> THEN 0
    ELSE Head(bytes) + Radix * FromLittleEndian(Tail(bytes))

Zeros(k) == [i \in 1..k |-> 0]

\* writeInt(n, sink): 8 bytes, the 4 of the value then 4 zero bytes.
writeInt(n, sk) ==
    StringSink_accept(sk, LittleEndian(n % IntMod, IntBytes)
                            \o Zeros(SlotBytes - IntBytes))

\* writeLongLong(n, sink): the 8 bytes of the value.
writeLongLong(n, sk) ==
    StringSink_accept(sk, LittleEndian(n % LongMod, SlotBytes))

\* writePadding(len, sink): zero bytes up to the next multiple of 8, none when
\* len is one.
writePadding(len, sk) ==
    IF len % SlotBytes # 0
    THEN StringSink_accept(sk, Zeros(SlotBytes - (len % SlotBytes)))
    ELSE sk

\* writeString(s, sink): the length, the bytes, the padding.
writeString(s, sk) ==
    writePadding(Len(s), StringSink_accept(writeInt(Len(s), sk), s))

\* writeStringSet(ss, sink): the count, then each element in the set's
\* iteration order.
RECURSIVE writeStrings(_, _)
writeStrings(ss, sk) ==
    IF ss = <<>> THEN sk
    ELSE writeStrings(Tail(ss), writeString(Head(ss), sk))

writeStringSet(ss, sk) ==
    writeStrings(ss, writeInt(Len(ss), sk))

Failed(src) == [src |-> src, ok |-> FALSE, value |-> 0]

\* readInt(source): 8 bytes, the low 4 are the value, the high 4 are ignored.
readInt(src) ==
    LET f == StringSource_fill(src, SlotBytes)
    IN  IF f.result # "ok" THEN Failed(f.src)
        ELSE [src |-> f.src, ok |-> TRUE,
              value |-> FromLittleEndian(SubSeq(f.data, 1, IntBytes))]

\* readLongLong(source): 8 bytes, all of them the value.
readLongLong(src) ==
    LET f == StringSource_fill(src, SlotBytes)
    IN  IF f.result # "ok" THEN Failed(f.src)
        ELSE [src |-> f.src, ok |-> TRUE, value |-> FromLittleEndian(f.data)]

\* readPadding(len, source): read and discard what writePadding(len) wrote.
readPadding(len, src) ==
    IF len % SlotBytes # 0
    THEN LET f == StringSource_fill(src, SlotBytes - (len % SlotBytes))
         IN  IF f.result # "ok" THEN Failed(f.src)
             ELSE [src |-> f.src, ok |-> TRUE, value |-> 0]
    ELSE [src |-> src, ok |-> TRUE, value |-> 0]

\* readString(source): the length, that many bytes, the padding.
readString(src) ==
    LET n == readInt(src)
    IN  IF ~n.ok THEN n
        ELSE LET f == StringSource_fill(n.src, n.value % SizeMod)
             IN  IF f.result # "ok" THEN Failed(f.src)
                 ELSE LET p == readPadding(n.value, f.src)
                      IN  IF ~p.ok THEN p
                          ELSE [src |-> p.src, ok |-> TRUE, value |-> f.data]

\* Byte strings compare as std::string does: bytewise, a proper prefix first.
RECURSIVE StringLess(_, _)
StringLess(a, b) ==
    IF b = <<>> THEN FALSE
    ELSE IF a = <<>> THEN TRUE
    ELSE IF Head(a) # Head(b) THEN Head(a) < Head(b)
    ELSE StringLess(Tail(a), Tail(b))

Elements(ss) == {ss[i] : i \in 1..Len(ss)}

\* StringSet is std::set<string>: the elements in increasing order, each once.
\* insert(x) puts x in its place, or does nothing when it is there.
StringSet_insert(ss, x) ==
    IF x \in Elements(ss) THEN ss
    ELSE LET k == Cardinality({i \in 1..Len(ss) : StringLess(ss[i], x)})
         IN  SubSeq(ss, 1, k) \o <<x>> \o SubSeq(ss, k + 1, Len(ss))

\* The set built by inserting the elements of `ins` one after the other.
RECURSIVE MakeStringSet(_)
MakeStringSet(ins) ==
    IF ins = <<>> THEN <<>>
    ELSE StringSet_insert(MakeStringSet(SubSeq(ins, 1, Len(ins) - 1)),
                          ins[Len(ins)])

\* readStringSet(source): the count, then that many strings, inserted into a
\* set.
RECURSIVE readStrings(_, _, _)
readStrings(src, n, acc) ==
    IF n = 0 THEN [src |-> src, ok |-> TRUE, value |-> acc]
    ELSE LET r == readString(src)
         IN  IF ~r.ok THEN r
             ELSE readStrings(r.src, n - 1, StringSet_insert(acc, r.value))

readStringSet(src) ==
    LET n == readInt(src)
    IN  IF ~n.ok THEN n ELSE readStrings(n.src, n.value, <<>>)

(***************************************************************************)
(* Inputs of the codec                                                     *)
(***************************************************************************)

\* Every unsigned int.
Ints == 0..(IntMod - 1)

\* Unsigned long longs: the ends of the range, the powers of the radix and
\* their neighbours, the values with all bytes alike, and what surrounds the
\* largest unsigned int.
LongLongs ==
    {0, 1, IntMod - 1, IntMod, IntMod + 1, LongMod - IntMod, LongMod - 1}
    \cup {Radix ^ i : i \in 0..(SlotBytes - 1)}
    \cup {Radix ^ i - 1 : i \in 1..SlotBytes}
    \cup {Radix ^ i + 1 : i \in 1..(SlotBytes - 1)}
    \cup {d * ((LongMod - 1) \div (Radix - 1)) : d \in ByteVal}

\* The byte string of length n whose i-th byte is (i + k) mod Radix.
Pattern(n, k) == [i \in 1..n |-> (i + k) % Radix]

\* Byte strings: all the short ones, and patterned ones of every length up to
\* past a multiple of 8.
Strings ==
    UNION {[1..n -> ByteVal] : n \in 0..MaxAllLen}
    \cup {Pattern(n, k) : n \in 0..MaxPatLen, k \in ByteVal}

\* The strings that go into sets: empty, short, one a prefix of another, one
\* of exactly 8 bytes and one longer.
SetPool ==
    {<<>>, <<1>>, <<1, 0>>, <<0, 1>>, Pattern(SlotBytes, 0), Pattern(MaxPatLen, 1)}

\* Insertion sequences, repeats allowed.
Insertions == UNION {[1..n -> SetPool] : n \in 0..MaxInserts}

Reverse(q) == [i \in 1..Len(q) |-> q[Len(q) + 1 - i]]

(***************************************************************************)
(* The codec's operations: a value is written to a StringSink, then read    *)
(* back from a StringSource over the sink's string.                        *)
(***************************************************************************)
CodecInit ==
    /\ SinkParked /\ SourceParked /\ WriteParked /\ FramingParked
    /\ sfill = [called |-> FALSE, pos0 |-> 0, len |-> 0, result |-> "ok",
                data |-> <<>>]
    /\ strsrc = [s |-> <<>>, pos |-> 0]
    /\ ssink = [s |-> <<>>]
    /\ got = [stage |-> "start", ok |-> TRUE, value |-> 0]
    /\ \/ \E n \in Ints : msg = [kind |-> "int", v |-> n]
       \/ \E n \in LongLongs : msg = [kind |-> "longlong", v |-> n]
       \/ \E len \in 0..MaxPadLen : msg = [kind |-> "padding", v |-> len]
       \/ \E s \in Strings : msg = [kind |-> "string", v |-> s]
       \/ \E ins \in Insertions : msg = [kind |-> "set", v |-> ins]

\* A writer has run: the StringSink holds its bytes.
Written(sk) ==
    /\ ssink' = sk
    /\ got' = [got EXCEPT !.stage = "written"]
    /\ UNCHANGED <<msg, strsrc>>
    /\ CodecOnly

\* A reader has run on a StringSource over the sink's string.
Read(r) ==
    /\ strsrc' = r.src
    /\ got' = [stage |-> "read", ok |-> r.ok, value |-> r.value]
    /\ UNCHANGED <<msg, ssink>>
    /\ CodecOnly

ToWrite(kind) == got.stage = "start" /\ msg.kind = kind
ToRead(kind) == got.stage = "written" /\ msg.kind = kind

WriteInt ==
    /\ ToWrite("int")
    /\ Written(writeInt(msg.v, ssink))

ReadInt ==
    /\ ToRead("int")
    /\ Read(readInt(StringSource_ctor(ssink.s)))

WriteLongLong ==
    /\ ToWrite("longlong")
    /\ Written(writeLongLong(msg.v, ssink))

ReadLongLong ==
    /\ ToRead("longlong")
    /\ Read(readLongLong(StringSource_ctor(ssink.s)))

WritePadding ==
    /\ ToWrite("padding")
    /\ Written(writePadding(msg.v, ssink))

ReadPadding ==
    /\ ToRead("padding")
    /\ Read(readPadding(msg.v, StringSource_ctor(ssink.s)))

WriteString ==
    /\ ToWrite("string")
    /\ Written(writeString(msg.v, ssink))

ReadString ==
    /\ ToRead("string")
    /\ Read(readString(StringSource_ctor(ssink.s)))

\* The set is built by the insertions msg.v, then written.
WriteStringSet ==
    /\ ToWrite("set")
    /\ Written(writeStringSet(MakeStringSet(msg.v), ssink))

ReadStringSet ==
    /\ ToRead("set")
    /\ Read(readStringSet(StringSource_ctor(ssink.s)))

CodecNext ==
    \/ WriteInt \/ ReadInt
    \/ WriteLongLong \/ ReadLongLong
    \/ WritePadding \/ ReadPadding
    \/ WriteString \/ ReadString
    \/ WriteStringSet \/ ReadStringSet

(***************************************************************************)
(* Messages: several values written one after the other to one StringSink, *)
(* then read back, in the same order and with the matching readers, from   *)
(* one StringSource over the sink's string.                                *)
(***************************************************************************)

\* The values that make up messages.
FrameInts == {0, 1, Radix, IntMod - 1}

FrameLongLongs == {0, IntMod, LongMod - 1}

\* Strings: empty, shorter than a slot, a whole slot, and longer than one;
\* <<0>> is written as the bytes of the int 1 followed by zeros.
FrameStrings == {<<>>, <<0>>, Pattern(SlotBytes, 0), Pattern(SlotBytes + 1, 1)}

\* Insertion sequences that build the sets: none, one element, and two
\* given out of order.
FrameSets == {<<>>, << <<1>> >>, << <<1, 0>>, <<>> >>}

FramingInit ==
    /\ SinkParked /\ SourceParked /\ WriteParked
    /\ StringParked /\ CodecParked
    /\ FramingParked

\* A writer has run on the sink: the message has one more value, which ends
\* where the sink's string now ends.
Put(kind, v, sk) ==
    /\ ssink' = sk
    /\ fr' = [fr EXCEPT !.written =
                 Append(@, [kind |-> kind, v |-> v, end |-> Len(sk.s)])]
    /\ UNCHANGED strsrc
    /\ FramingOnly

\* A reader has run on the source: its outcome and the cursor it left.
Take(r) ==
    /\ strsrc' = r.src
    /\ fr' = [fr EXCEPT !.read =
                 Append(@, [ok |-> r.ok, v |-> r.value, pos |-> r.src.pos])]
    /\ UNCHANGED ssink
    /\ FramingOnly

ToPut == fr.phase = "writing" /\ Len(fr.written) < MaxFrames

\* The next value to read was written by the writer of this kind.
ToTake(kind) ==
    /\ fr.phase = "reading"
    /\ Len(fr.read) < Len(fr.written)
    /\ fr.read # <<>> => fr.read[Len(fr.read)].ok
    /\ fr.written[Len(fr.read) + 1].kind = kind

PutInt(n) ==
    /\ ToPut
    /\ Put("int", n, writeInt(n, ssink))

PutLongLong(n) ==
    /\ ToPut
    /\ Put("longlong", n, writeLongLong(n, ssink))

PutString(s) ==
    /\ ToPut
    /\ Put("string", s, writeString(s, ssink))

\* The set is built by the insertions ins, then written; it is what is read.
PutStringSet(ins) ==
    /\ ToPut
    /\ Put("set", MakeStringSet(ins), writeStringSet(MakeStringSet(ins), ssink))

\* The message is complete: a StringSource is constructed over the string.
Open ==
    /\ fr.phase = "writing"
    /\ strsrc' = StringSource_ctor(ssink.s)
    /\ fr' = [fr EXCEPT !.phase = "reading"]
    /\ UNCHANGED ssink
    /\ FramingOnly

TakeInt ==
    /\ ToTake("int")
    /\ Take(readInt(strsrc))

TakeLongLong ==
    /\ ToTake("longlong")
    /\ Take(readLongLong(strsrc))

TakeString ==
    /\ ToTake("string")
    /\ Take(readString(strsrc))

TakeStringSet ==
    /\ ToTake("set")
    /\ Take(readStringSet(strsrc))

FramingNext ==
    \/ \E n \in FrameInts : PutInt(n)
    \/ \E n \in FrameLongLongs : PutLongLong(n)
    \/ \E s \in FrameStrings : PutString(s)
    \/ \E ins \in FrameSets : PutStringSet(ins)
    \/ Open
    \/ TakeInt
    \/ TakeLongLong
    \/ TakeString
    \/ TakeStringSet

(***************************************************************************)
(* Specifications, one per component; the other components stay as built.  *)
(***************************************************************************)
SpecSink == SinkInit /\ [][SinkNext]_vars

SpecSource == SourceInit /\ [][SourceNext]_vars

SpecString == StringInit /\ [][StringNext]_vars

SpecCodec == CodecInit /\ [][CodecNext]_vars

SpecFdWrite == FdWriteInit /\ [][FdWriteNext]_vars

SpecFraming == FramingInit /\ [][FramingNext]_vars

(***************************************************************************)
(* Claims about the buffered sink, checked under SpecSink                  *)
(***************************************************************************)

\* C1 (buffering transparency): after accept calls of any sizes and a flush,
\* none of which raised, the bytes handed to the underlying write are exactly
\* the accepted bytes, in order.
C1_BufferingTransparency ==
    (lastOp.op = "flush" /\ ~hist.raised) => fd.wire = hist.accepted

\* A flush that found bytes pending, after a chunk larger than the capacity
\* and more accepted bytes than the buffer holds.
C1_Witness ==
    /\ lastOp.op = "flush" /\ ~hist.raised
    /\ lastOp.pending > 0
    /\ hist.maxChunk > sink.bufSize
    /\ Len(hist.accepted) = MaxTotal

\* C2 (final flush): once an FdSink whose transport never failed has been
\* destroyed, every accepted byte has been handed to the underlying write, in
\* order.
C2_DestructionDelivers ==
    (sinkLife = "destroyed" /\ ~hist.raised) => fd.wire = hist.accepted

\* A sink destroyed while it still held buffered bytes.
C2_Witness ==
    /\ sinkLife = "destroyed" /\ ~hist.raised
    /\ lastOp.pending > 0
    /\ Len(hist.accepted) > sink.bufSize

\* C3 (no error leaves the destruction path): when the write of the implicit
\* flush fails, the destruction of the FdSink still ends normally.
C3_DestructionSwallowsErrors ==
    sinkLife = "destroyed" => lastOp.result \notin DtorEscapes

(***************************************************************************)
(* Claims about the buffered source, checked under SpecSource              *)
(***************************************************************************)

\* C4 (partial-read resilience): whatever sizes the underlying read returns,
\* as long as no fill has raised the fills that returned have delivered,
\* concatenated, exactly the first `requested` bytes of the transport stream,
\* and a fill in progress holds exactly the bytes that follow them.
C4_PartialReadResilience ==
    ~rhist.raised =>
        /\ rhist.delivered = Bytes(1, rhist.requested)
        /\ call.pc = "loop" => call.out = Bytes(rhist.requested + 1, Len(call.out))

\* Every underlying read returned a single byte, and a fill of several bytes
\* has returned with the whole stream delivered.
C4_Witness ==
    /\ ~rhist.raised /\ call.pc = "idle"
    /\ stream.len = MaxStream
    /\ rhist.requested = MaxStream
    /\ rhist.reads = MaxStream
    /\ rhist.last.result = "ok" /\ rhist.last.len > 1

\* C5 (end-of-stream is an error): a fill during which the transport reached
\* end-of-stream while bytes were still needed ends in an error, and a fill
\* that returns has delivered all len bytes.
C5_EofFailsFill ==
    /\ rhist.last.eof => rhist.last.result = "error"
    /\ rhist.last.result = "ok" => Len(rhist.last.out) = rhist.last.len

\* A fill that had part of its bytes when the stream ended.
C5_Witness ==
    /\ rhist.last.eof /\ rhist.last.result = "error"
    /\ Len(rhist.last.out) > 0
    /\ Len(rhist.last.out) < rhist.last.len

(***************************************************************************)
(* Claims about the StringSource, checked under SpecString                 *)
(***************************************************************************)

\* C6 (no truncated success): a fill(len) that asks for more bytes than
\* remain unread, pos + len > L, does not return normally.
C6_ReadPastEndFails ==
    (sfill.called /\ sfill.pos0 + sfill.len > Len(strsrc.s))
        => sfill.result # "ok"

(***************************************************************************)
(* Claims about the codec, checked under SpecCodec                         *)
(***************************************************************************)

\* The bytes b[from..to] are zero.
AllZero(b, from, to) == \A i \in from..to : b[i] = 0

\* C7 (integer round trip): writeInt(n) puts exactly 8 bytes in the
\* StringSink, the 4 little-endian bytes of n then 4 zero bytes, and readInt
\* over them returns n; writeLongLong(n) puts the 8 little-endian bytes of n
\* and readLongLong returns n.
C7_IntegerRoundTrip ==
    /\ (msg.kind = "int" /\ got.stage # "start") =>
          /\ Len(ssink.s) = 8
          /\ ssink.s[1] + Radix * ssink.s[2] + Radix ^ 2 * ssink.s[3]
                + Radix ^ 3 * ssink.s[4] = msg.v
          /\ \A i \in 1..4 : ssink.s[i] \in ByteVal
          /\ AllZero(ssink.s, 5, 8)
    /\ (msg.kind = "longlong" /\ got.stage # "start") =>
          /\ Len(ssink.s) = 8
          /\ ssink.s[1] + Radix * ssink.s[2] + Radix ^ 2 * ssink.s[3]
                + Radix ^ 3 * ssink.s[4] + Radix ^ 4 * ssink.s[5]
                + Radix ^ 5 * ssink.s[6] + Radix ^ 6 * ssink.s[7]
                + Radix ^ 7 * ssink.s[8] = msg.v
          /\ \A i \in 1..8 : ssink.s[i] \in ByteVal
    /\ (msg.kind \in {"int", "longlong"} /\ got.stage = "read") =>
          /\ got.ok
          /\ got.value = msg.v
          /\ strsrc.pos = 8

\* The largest unsigned int has been written and read back.
C7_Witness ==
    /\ msg.kind = "int" /\ msg.v = IntMod - 1
    /\ got.stage = "read" /\ got.ok

\* The padding writePadding(len) emits.
PadOf(len) == (8 - (len % 8)) % 8

\* C8 (string round trip): readString over the bytes of writeString(s)
\* returns s, and consumes 8 + len(s) + pad(len(s)) bytes, which are all the
\* bytes writeString emitted.
C8_StringRoundTrip ==
    (msg.kind = "string" /\ got.stage = "read") =>
        /\ got.ok
        /\ got.value = msg.v
        /\ strsrc.pos = 8 + Len(msg.v) + PadOf(Len(msg.v))
        /\ strsrc.pos = Len(ssink.s)

\* A string longer than a slot, so with padding, has been read back.
C8_Witness ==
    /\ msg.kind = "string" /\ got.stage = "read" /\ got.ok
    /\ Len(msg.v) > SlotBytes
    /\ PadOf(Len(msg.v)) > 0

\* C9 (padding law): writePadding(len) emits k zero bytes, 0 <= k <= 7, with
\* len + k a multiple of 8, and readPadding(len) consumes exactly those k
\* bytes.
C9_PaddingLaw ==
    /\ (msg.kind = "padding" /\ got.stage # "start") =>
          /\ Len(ssink.s) \in 0..7
          /\ (msg.v + Len(ssink.s)) % 8 = 0
          /\ AllZero(ssink.s, 1, Len(ssink.s))
    /\ (msg.kind = "padding" /\ got.stage = "read") =>
          /\ got.ok
          /\ strsrc.pos = Len(ssink.s)

\* Seven bytes of padding, after a length one past a multiple of 8, have
\* been written and read.
C9_Witness ==
    /\ msg.kind = "padding" /\ got.stage = "read" /\ got.ok
    /\ msg.v > 8 /\ msg.v % 8 = 1
    /\ strsrc.pos = 7

\* C10 (set round trip): readStringSet over the bytes of writeStringSet(S)
\* returns a set with the elements of S, and the bytes written depend on the
\* set only: the same elements inserted in the opposite order encode to the
\* same bytes.
C10_SetRoundTrip ==
    /\ (msg.kind = "set" /\ got.stage = "read") =>
          /\ got.ok
          /\ Elements(got.value) = Elements(msg.v)
          /\ Len(got.value) = Cardinality(Elements(msg.v))
    /\ (msg.kind = "set" /\ got.stage # "start") =>
          ssink.s = writeStringSet(MakeStringSet(Reverse(msg.v)),
                                   [s |-> <<>>]).s

\* A set of as many distinct strings as were inserted, inserted out of
\* order, has been read back.
C10_Witness ==
    /\ msg.kind = "set" /\ got.stage = "read" /\ got.ok
    /\ Len(msg.v) = MaxInserts
    /\ Cardinality(Elements(msg.v)) = MaxInserts
    /\ MakeStringSet(msg.v) # msg.v

(***************************************************************************)
(* More claims about the buffered sink, checked under SpecSink             *)
(***************************************************************************)

\* C13 (synchronous errors): an accept or flush call during which the
\* underlying write failed does not return normally: it raises.
C13_FailingWriteRaises ==
    (lastOp.op \in {"accept", "flush"} /\ fd.failed) => lastOp.result = "error"

\* An accept that found bytes buffered by earlier calls, triggered the write
\* of the full buffer and raised when that write failed.
C13_Witness ==
    /\ lastOp.op = "accept" /\ fd.failed /\ lastOp.result = "error"
    /\ lastOp.pending > 0

\* C14 (cursor invariant of the sink): 0 <= bufPos <= bufSize always, and as
\* long as no call has raised the bytes in [0, bufPos) are the accepted bytes
\* not yet handed to the underlying write, in order: what is on the wire
\* followed by what is buffered is what was accepted.
C14_SinkCursorInvariant ==
    /\ sink.bufPos \in 0..sink.bufSize
    /\ (sinkLife = "live" /\ ~hist.raised) =>
          fd.wire \o BufferedBytes(sink) = hist.accepted

\* Bytes on the wire and bytes in the buffer at once.
C14_Witness ==
    /\ sinkLife = "live" /\ ~hist.raised
    /\ Len(fd.wire) > 0
    /\ sink.bufPos > 1

(***************************************************************************)
(* More claims about the buffered source, checked under SpecSource         *)
(***************************************************************************)

\* A step in which the fill calls the underlying read: the read returns bytes
\* from the transport, or it raises at end-of-stream and ends the fill.
UnderlyingReadStep ==
    \/ stream'.pos # stream.pos
    \/ rhist'.reads # rhist.reads
    \/ call.pc = "loop" /\ call'.pc = "idle" /\ rhist'.last.result = "error"

\* C15 (cursor invariant of the source): bufPosOut <= bufPosIn <= bufSize in
\* every reachable state, and the underlying read is called only when the
\* unread region [bufPosOut, bufPosIn) is empty.
C15_SourceCursorInvariant ==
    /\ [](source.bufPosOut <= source.bufPosIn
            /\ source.bufPosIn <= source.bufSize)
    /\ [][UnderlyingReadStep => source.bufPosOut = source.bufPosIn]_vars

\* The buffer was refilled more than once and is now partly consumed.
C15_Witness ==
    /\ rhist.reads > 1
    /\ 0 < source.bufPosOut /\ source.bufPosOut < source.bufPosIn
    /\ source.bufPosIn = source.bufSize

(***************************************************************************)
(* More claims about the StringSource, checked under SpecString.  In the   *)
(* state after a fill, sfill.pos0 and sfill.len are the cursor before the  *)
(* call and the length asked for, strsrc.pos the cursor after it.          *)
(***************************************************************************)

\* C12 (error kind), as claimed: the failure a StringSource raises when it is
\* asked to read past the end of its buffer is a SerialisationError.
C12_RaisesSerialisationError ==
    (sfill.called /\ sfill.result # "ok")
        => sfill.result = "SerialisationError"

\* C12 as amended: that failure is the generic Error when the cursor was
\* within the buffer, and std::out_of_range, raised by std::string::copy,
\* when the cursor was already past the end; it is never a
\* SerialisationError.
C12_RaisesGenericError ==
    (sfill.called /\ sfill.result # "ok") =>
        /\ sfill.pos0 <= Len(strsrc.s) => sfill.result = "Error"
        /\ sfill.pos0 > Len(strsrc.s) => sfill.result = "out_of_range"

\* A fill from within the buffer that ran past its end and raised.
C12_Witness ==
    /\ sfill.called /\ sfill.result = "Error"
    /\ 0 < sfill.pos0 /\ sfill.pos0 < Len(strsrc.s)
    /\ sfill.pos0 + sfill.len > Len(strsrc.s)

\* C16 (failure path): a fill with pos <= L and pos + len > L copies the
\* remaining L - pos bytes, leaves pos at pos + len, which is past L, and
\* fails.
C16_FailurePathAdvances ==
    (sfill.called /\ sfill.pos0 <= Len(strsrc.s)
                  /\ sfill.pos0 + sfill.len > Len(strsrc.s)) =>
        /\ sfill.data = SubSeq(strsrc.s, sfill.pos0 + 1, Len(strsrc.s))
        /\ strsrc.pos = sfill.pos0 + sfill.len
        /\ strsrc.pos > Len(strsrc.s)
        /\ sfill.result # "ok"

\* C17 (cursor): pos starts at 0 and no fill decreases it; a fill that
\* returns normally leaves pos <= L, has advanced pos by exactly len and has
\* delivered the bytes [old pos, old pos + len) of the buffer.
C17_CursorMonotonic ==
    /\ ~sfill.called => strsrc.pos = 0
    /\ sfill.called => strsrc.pos >= sfill.pos0
    /\ (sfill.called /\ sfill.result = "ok") =>
          /\ strsrc.pos <= Len(strsrc.s)
          /\ strsrc.pos = sfill.pos0 + sfill.len
          /\ sfill.data = SubSeq(strsrc.s, sfill.pos0 + 1,
                                 sfill.pos0 + sfill.len)

\* C19 (sticky failure): a fill on a source whose cursor is past the end,
\* pos > L, fails whatever its len, delivers nothing and leaves pos where it
\* was.
C19_StickyFailure ==
    (sfill.called /\ sfill.pos0 > Len(strsrc.s)) =>
        /\ sfill.result # "ok"
        /\ sfill.data = <<>>
        /\ strsrc.pos = sfill.pos0

\* A fill of no bytes at all on a source that had failed: it fails too.
C19_Witness ==
    /\ sfill.called /\ sfill.pos0 > Len(strsrc.s)
    /\ sfill.len = 0
    /\ sfill.result # "ok"

\* C20 (overflow): for every pos <= L and every len a size_t holds with
\* pos + len > L, the sum taken in the integers, the fill fails, also when
\* pos + len wraps around in size_t to a value that is at most L.
C20_OverflowStillFails ==
    (sfill.called /\ sfill.pos0 <= Len(strsrc.s)
                  /\ sfill.len \in 0..(SizeMod - 1)
                  /\ sfill.pos0 + sfill.len > Len(strsrc.s))
        => sfill.result \in {"Error", "out_of_range", "SerialisationError"}

(***************************************************************************)
(* Claims about FdSink::write, checked under SpecFdWrite                   *)
(***************************************************************************)

\* C18 (write loop): with a write primitive that accepts any 1..remaining
\* bytes per attempt and may be interrupted finitely often, the descriptor
\* has at every moment received exactly the accepted prefix of data after
\* what it held before the call, so interrupted attempts lose and repeat
\* nothing; a failure of the primitive other than an interruption makes
\* write raise; and when write has returned normally the descriptor has
\* received exactly the len bytes of data, in order.
C18_WriteLoop ==
    /\ wr.pc = "loop" =>
          /\ wr.off <= Len(wr.data)
          /\ wr.wire = wr.before \o SubSeq(wr.data, 1, wr.off)
    /\ wr.osError => wr.pc = "raised"
    /\ wr.pc = "returned" => wr.wire = wr.before \o wr.data

\* A write of several bytes returned after an interrupted attempt and more
\* than one partial acceptance, on a descriptor that already held bytes.
C18_Witness ==
    /\ wr.pc = "returned"
    /\ wr.intr > 0
    /\ wr.parts > 1
    /\ Len(wr.before) > 0
    /\ wr.wire = wr.before \o wr.data

(***************************************************************************)
(* Claims about messages, checked under SpecFraming                        *)
(***************************************************************************)

\* C11 (FIFO framing): when ints, long longs, strings and string sets are
\* written in order to one sink and read back in the same order with the
\* matching readers from a source over the bytes produced, every reader
\* succeeds, leaves the cursor exactly where its writer's bytes end (so it
\* consumed those bytes and no others), and returns the value written; and
\* once the last value is read no unread byte remains.
C11_FifoFraming ==
    /\ \A i \in 1..Len(fr.read) :
          /\ fr.read[i].ok
          /\ fr.read[i].pos = fr.written[i].end
          /\ fr.read[i].v = fr.written[i].v
    /\ (fr.phase = "reading" /\ Len(fr.read) = Len(fr.written)) =>
          strsrc.pos = Len(ssink.s)

\* A message of a two-element set, a string longer than a slot and an int
\* has been read back whole.
C11_Witness ==
    /\ fr.phase = "reading"
    /\ Len(fr.written) = 3
    /\ Len(fr.read) = 3
    /\ fr.written[1].kind = "set" /\ Len(fr.written[1].v) = 2
    /\ fr.written[2].kind = "string" /\ Len(fr.written[2].v) > SlotBytes
    /\ fr.written[3].kind = "int" /\ fr.written[3].v = IntMod - 1
    /\ fr.read[3].ok /\ fr.read[3].v = IntMod - 1
    /\ strsrc.pos = Len(ssink.s)

====
